---- MODULE Spec2Model ----
(***************************************************************************)
(* The NovaFreeze route dashboard: the Dashboard (LogisticsDashboard.tsx)  *)
(* with its generate-route handler, and the Map View in its three variants *)
(* (Mapbox client, OpenRouteService client, OSRM routing control) with the *)
(* layer references, the provider requests in flight and the interval      *)
(* timers of the vehicle animation.                                        *)
(*                                                                         *)
(* Coordinates are fixed-point integers, degrees * 10^4, as <<lat, lng>>.  *)
(* A React state variable holds the latest value passed to its setter.     *)
(* JavaScript runs one task at a time: a handler is split only at the      *)
(* places where it sets state or awaits, and no other task runs between    *)
(* the synchronous steps of a handler.                                     *)
(***************************************************************************)
EXTENDS Integers, Sequences, FiniteSets, TLC

\* ---------------------------------------------------------------- bounds
NumLocations == 2      \* catalog entries the selectors offer in the model
MaxCalls == 2          \* updateRoute calls in one run
MaxProviderLen == 2    \* longest coordinate list a provider answers with
MaxSeed == 1           \* seeds of the random stream seen by Math.random
MaxCursor == 1         \* SpecMap follows a timer's cursor up to this index

\* ------------------------------------------------------ program constants
segments == 20
RandRes == 4           \* resolution of a random draw: rnd = d / RandRes
MAPBOX_PLACEHOLDER == "pk.your_mapbox_token_here"

\* The values of the MAPBOX_TOKEN constant a build of the Mapbox variant can
\* carry: unset, the placeholder the source ships, a token of the user.
MapboxTokens == {"", MAPBOX_PLACEHOLDER, "pk.user_token"}

SinTab ==
  <<0, 156, 309, 454, 588, 707, 809, 891, 951, 988, 1000,
    988, 951, 891, 809, 707, 588, 454, 309, 156, 0>>

AllLocations ==
  << [name |-> "Downtown Vancouver", coords |-> <<492827, -1231207>>],
     [name |-> "UBC Vancouver", coords |-> <<492606, -1232460>>],
     [name |-> "Surrey Central Station", coords |-> <<491897, -1228481>>],
     [name |-> "Richmond Centre", coords |-> <<491737, -1231365>>],
     [name |-> "Abbotsford International Airport", coords |-> <<490252, -1223606>>],
     [name |-> "Kelowna General Hospital", coords |-> <<498844, -1194821>>],
     [name |-> "Kamloops North Station", coords |-> <<506745, -1203273>>],
     [name |-> "Victoria Harbour", coords |-> <<484284, -1233656>>],
     [name |-> "Nanaimo Ferry Terminal", coords |-> <<491659, -1239401>>],
     [name |-> "Prince George Civic Centre", coords |-> <<539171, -1227497>>] >>

BC_LOCATIONS == SubSeq(AllLocations, 1, NumLocations)

WEATHER_CONDITIONS == {"sunny", "rain", "snow"}

ErrSelectBoth == "Please select both start and end locations."
ErrChooseDifferent == "Please choose different locations."
ErrNoValidRoute == "No valid route found for selected locations."

\* A name no catalog entry carries: startLocation is a free string state.
UnknownName == "Atlantis"

CatalogNames == {BC_LOCATIONS[i].name : i \in 1..Len(BC_LOCATIONS)}
SelectableNames == CatalogNames \cup {UnknownName}

Variants == {"mapbox", "ors", "osrm"}
Gens == 1..MaxCalls
Seeds == 0..MaxSeed
NoRef == 0

NoCoords == <<0, 0>>
NoRouteData ==
  [start |-> NoCoords, end |-> NoCoords, weather |-> "",
   startName |-> "", endName |-> ""]
NoLocation == [name |-> "", coords |-> NoCoords]
NoClosure ==
  [startLocation |-> "", endLocation |-> "", weather |-> "",
   start |-> NoLocation, end |-> NoLocation]
NoResponse == [kind |-> "none", len |-> 0, seed |-> 0]

\* How a provider request can end. A failed request of a fetch variant makes
\* the client draw from Math.random, whose stream the seed fixes.
OkResponses == {[kind |-> "ok", len |-> n, seed |-> 0] : n \in 0..MaxProviderLen}
FailResponses ==
  {[kind |-> k, len |-> 0, seed |-> sd] :
     k \in {"neterr", "http", "empty"}, sd \in Seeds}

\* What an operation on a released map can do: Leaflet raises, or goes on.
ReleasedMapOutcomes == {"throws", "proceeds"}

VARIABLES
  \* Dashboard (LogisticsDashboard.tsx)
  startLocation, endLocation, weather, route, error, isLoading,
  hpc,          \* position of handleGenerateRoute
  closure,      \* values the running handler captured
  inProgress,   \* handler invocations past setIsLoading(true) and not yet
                \* through the finally block
  dashMapRef,   \* the Dashboard's ref to the Map View: TRUE while mounted
  \* Map View
  variant,      \* which of the three Map View versions is built
  MAPBOX_TOKEN, \* the token constant of the Mapbox variant
  mapRef,       \* "live" after mount, "removed" after the cleanup
  calls,        \* the Route Descriptors passed to updateRoute, in order
  inflight,     \* calls whose provider request is unresolved
  onMap,        \* the layers on the map: <<kind, call>>
  routeLayerRef, markersRef, vehicleMarkerRef, routingControlRef,
  animationRef, currentRouteCoordinatesRef,
  timers,       \* live interval timers, named by the call that set them
  currentSegment,    \* per timer: the closure variable of its callback
  routeCoordinates,  \* per call: the coordinate list its draw obtained
  vehicleLatLng,     \* per call: the position of its vehicle marker
  response,     \* per call: how its provider request ended
  absorbed,     \* per call: where an error of its draw was caught
  priorAnimating, \* per call (history): it began on a fully drawn,
                  \* animating route with no request in flight
  returned      \* per call: what updateRoute handed back to its caller

dashVars ==
  <<startLocation, endLocation, weather, route, error, isLoading, hpc,
    closure, inProgress, dashMapRef>>
refVars ==
  <<routeLayerRef, markersRef, vehicleMarkerRef, routingControlRef,
    animationRef, currentRouteCoordinatesRef>>
mapVars ==
  <<variant, MAPBOX_TOKEN, mapRef, calls, inflight, onMap, refVars, timers,
    currentSegment, routeCoordinates, vehicleLatLng, response, absorbed,
    priorAnimating, returned>>
vars == <<dashVars, mapVars>>

\* ------------------------------------------------------ pure functions

\* BC_LOCATIONS.find(loc => loc.name === n): the first match, or undefined.
RECURSIVE FindFrom(_, _)
FindFrom(n, i) ==
  IF i > Len(BC_LOCATIONS) THEN NoLocation
  ELSE IF BC_LOCATIONS[i].name = n THEN BC_LOCATIONS[i]
  ELSE FindFrom(n, i + 1)

find(n) == FindFrom(n, 1)

\* The n-th value Math.random() returns under a seed, as d in 0..RandRes-1.
RandomDraw(seed, n) == (seed + n * (2 * seed + 1)) % RandRes

\* Math.sin(progress * Math.PI) * 0.01 * (Math.random() - 0.5), in 10^-4 deg.
CurveOffset(k, d) == (SinTab[k + 1] * (2 * d - RandRes)) \div (10 * 2 * RandRes)

\* A generator whose loop stops before the last waypoint (i < segments).
generateFallbackRoute_ExclusiveLoop(start, end, seed) ==
  LET latDiff == end[1] - start[1]
      lngDiff == end[2] - start[2]
  IN [i \in 1..segments |->
        LET k == i - 1
        IN << start[1] + (latDiff * k) \div segments
                + CurveOffset(k, RandomDraw(seed, 2 * k)),
              start[2] + (lngDiff * k) \div segments
                + CurveOffset(k, RandomDraw(seed, 2 * k + 1)) >>]

generateFallbackRoute(start, end, seed) ==
  LET latDiff == end[1] - start[1]
      lngDiff == end[2] - start[2]
  IN [i \in 1..(segments + 1) |->
        LET k == i - 1
        IN << start[1] + (latDiff * k) \div segments
                + CurveOffset(k, RandomDraw(seed, 2 * k)),
              start[2] + (lngDiff * k) \div segments
                + CurveOffset(k, RandomDraw(seed, 2 * k + 1)) >>]

\* The geometry a provider answers with: n points in [lng, lat] order.
ProviderGeometry(start, end, n) ==
  [i \in 1..n |->
     IF n = 1 THEN <<start[2], start[1]>>
     ELSE << start[2] + ((end[2] - start[2]) * (i - 1)) \div (n - 1),
             start[1] + ((end[1] - start[1]) * (i - 1)) \div (n - 1) >>]

\* coordinates.map(([lng, lat]) => [lat, lng])
ToLatLng(geometry) ==
  [i \in 1..Len(geometry) |-> <<geometry[i][2], geometry[i][1]>>]

\* A token check that only tests for the empty string.
TokenConfigured_EmptyOnly == MAPBOX_TOKEN # ""

TokenConfigured == MAPBOX_TOKEN # "" /\ MAPBOX_TOKEN # MAPBOX_PLACEHOLDER

FailureKinds == {"neterr", "http", "empty"}

\* A client whose catch block returns the direct two-point line.
fetchRoute_DirectOnError(v, start, end, r) ==
  IF (v = "mapbox" /\ ~TokenConfigured) \/ r.kind \in FailureKinds
    THEN [coordinates |-> << <<start[1], start[2]>>, <<end[1], end[2]>> >>,
          caught |-> r.kind \in FailureKinds, threw |-> FALSE]
  ELSE [coordinates |-> ToLatLng(ProviderGeometry(start, end, r.len)),
        caught |-> FALSE, threw |-> FALSE]

\* What the fetch-based Directions Client does with a provider outcome:
\* the list it returns, whether it caught an error, whether it threw one.
fetchRoute(v, start, end, r) ==
  IF v = "mapbox" /\ ~TokenConfigured
    THEN [coordinates |-> << <<start[1], start[2]>>, <<end[1], end[2]>> >>,
          caught |-> FALSE, threw |-> FALSE]
  ELSE IF r.kind \in FailureKinds
    THEN [coordinates |-> generateFallbackRoute(start, end, r.seed),
          caught |-> TRUE, threw |-> FALSE]
  ELSE [coordinates |-> ToLatLng(ProviderGeometry(start, end, r.len)),
        caught |-> FALSE, threw |-> FALSE]

FavorableColor == "#22c55e"
WarningColor == "#ef4444"

routeColor_RainFavorable(w) ==
  IF w = "snow" THEN WarningColor ELSE FavorableColor

routeColor(w) == IF w = "sunny" THEN FavorableColor ELSE WarningColor

\* ------------------------------------------------------------ Init

Init ==
  /\ startLocation = ""
  /\ endLocation = ""
  /\ weather = "sunny"
  /\ route = NoRouteData
  /\ error = ""
  /\ isLoading = FALSE
  /\ hpc = "idle"
  /\ closure = NoClosure
  /\ inProgress = 0
  /\ dashMapRef = TRUE
  /\ variant \in Variants
  /\ MAPBOX_TOKEN \in MapboxTokens
  /\ variant # "mapbox" => MAPBOX_TOKEN = MAPBOX_PLACEHOLDER
  /\ mapRef = "live"
  /\ calls = <<>>
  /\ inflight = {}
  /\ onMap = {}
  /\ routeLayerRef = NoRef
  /\ markersRef = NoRef
  /\ vehicleMarkerRef = NoRef
  /\ routingControlRef = NoRef
  /\ animationRef = NoRef
  /\ currentRouteCoordinatesRef = <<>>
  /\ timers = {}
  /\ currentSegment = [g \in Gens |-> 0]
  /\ routeCoordinates = [g \in Gens |-> <<>>]
  /\ vehicleLatLng = [g \in Gens |-> NoCoords]
  /\ response = [g \in Gens |-> NoResponse]
  /\ absorbed = [g \in Gens |-> {}]
  /\ priorAnimating = [g \in Gens |-> FALSE]
  /\ returned = [g \in Gens |-> ""]

\* ------------------------------------------------- event-loop scheduling

\* The continuation of a draw whose client returned without a request is a
\* microtask: it runs before any other task.
MicrotaskPending == variant = "mapbox" /\ ~TokenConfigured /\ inflight # {}

\* No handler is in the middle of its synchronous steps.
HandlerAtRest == hpc \in {"idle", "await"}

\* A new task (user event, timer, network event) may start.
TaskMayStart == HandlerAtRest /\ ~MicrotaskPending

\* ------------------------------------------------------- Map View: draw

\* A clear phase that leaves the vehicle marker on the map.
ClearedLayers_KeepsVehicle ==
  IF variant = "osrm"
    THEN {<<"control", routingControlRef>>}
    ELSE {<<"polyline", routeLayerRef>>,
          <<"start", markersRef>>, <<"end", markersRef>>}

\* The layers drawRoute removes before it asks for the route.
ClearedLayers ==
  IF variant = "osrm"
    THEN {<<"control", routingControlRef>>, <<"vehicle", vehicleMarkerRef>>}
    ELSE {<<"polyline", routeLayerRef>>, <<"vehicle", vehicleMarkerRef>>,
          <<"start", markersRef>>, <<"end", markersRef>>}

\* The layers a complete draw of call g puts on the map.
RouteLayers(g) ==
  IF variant = "osrm"
    THEN {<<"control", g>>, <<"vehicle", g>>}
    ELSE {<<"polyline", g>>, <<"start", g>>, <<"end", g>>, <<"vehicle", g>>}

\* One route is drawn in full and animating, and nothing else is going on.
FullyDrawn ==
  /\ mapRef = "live"
  /\ inflight = {}
  /\ animationRef # NoRef
  /\ timers = {animationRef}
  /\ vehicleMarkerRef = animationRef
  /\ onMap = RouteLayers(animationRef)

\* A handle whose updateRoute hands drawRoute's promise to the caller.
updateRoute_ReturnsPromise(drawn) == drawn

\* What the handle's updateRoute gives its caller, drawRoute(routeData)
\* having evaluated to drawn: the arrow body is a block without a return.
updateRoute(drawn) == "undefined"

\* drawRoute up to its first await (fetch variants) or up to the end of its
\* synchronous body (routing-control variant), for the call numbered g.
DrawRouteStart(routeData) ==
  LET g == Len(calls) + 1 IN
  /\ calls' = Append(calls, routeData)
  /\ priorAnimating' = [priorAnimating EXCEPT ![g] = FullyDrawn]
  /\ returned' = [returned EXCEPT ![g] = updateRoute("promise")]
  /\ IF mapRef = "null"
       THEN UNCHANGED <<inflight, onMap, refVars, timers>>
       ELSE /\ timers' = timers \ {animationRef}
            /\ inflight' = inflight \cup {g}
            /\ IF variant = "osrm"
                 THEN /\ onMap' = (onMap \ ClearedLayers) \cup {<<"control", g>>}
                      /\ routingControlRef' = g
                      /\ UNCHANGED markersRef
                 ELSE /\ onMap' = onMap \ ClearedLayers
                      /\ markersRef' = NoRef
                      /\ UNCHANGED routingControlRef
            /\ UNCHANGED <<routeLayerRef, vehicleMarkerRef, animationRef,
                           currentRouteCoordinatesRef>>
  /\ UNCHANGED <<variant, MAPBOX_TOKEN, mapRef, currentSegment,
                 routeCoordinates, vehicleLatLng, response, absorbed>>

\* ---------------------------------------------------------- Dashboard

SelectStart(n) ==
  /\ TaskMayStart /\ dashMapRef
  /\ startLocation' = n
  /\ UNCHANGED <<endLocation, weather, route, error, isLoading, hpc,
                 closure, inProgress, dashMapRef,
                 mapVars>>

SelectEnd(n) ==
  /\ TaskMayStart /\ dashMapRef
  /\ endLocation' = n
  /\ UNCHANGED <<startLocation, weather, route, error, isLoading, hpc,
                 closure, inProgress, dashMapRef,
                 mapVars>>

SelectWeather(w) ==
  /\ TaskMayStart /\ dashMapRef
  /\ weather' = w
  /\ UNCHANGED <<startLocation, endLocation, route, error, isLoading, hpc,
                 closure, inProgress, dashMapRef,
                 mapVars>>

\* A handler without the check that start and end differ.
GenerateClick_NoDistinctCheck ==
  /\ TaskMayStart /\ dashMapRef
  /\ ~isLoading
  /\ Len(calls) < MaxCalls
  /\ closure' = [NoClosure EXCEPT !.startLocation = startLocation,
                                  !.endLocation = endLocation,
                                  !.weather = weather]
  /\ IF startLocation = "" \/ endLocation = ""
       THEN /\ error' = ErrSelectBoth
            /\ UNCHANGED <<isLoading, hpc, inProgress>>
       ELSE /\ error' = ""
            /\ isLoading' = TRUE
            /\ inProgress' = inProgress + 1
            /\ hpc' = "lookup"
  /\ UNCHANGED <<startLocation, endLocation, weather, route, dashMapRef,
                 mapVars>>

\* A handler that compares start and end before it checks for empty ones.
GenerateClick_DistinctFirst ==
  /\ TaskMayStart /\ dashMapRef
  /\ ~isLoading
  /\ Len(calls) < MaxCalls
  /\ closure' = [NoClosure EXCEPT !.startLocation = startLocation,
                                  !.endLocation = endLocation,
                                  !.weather = weather]
  /\ IF startLocation = endLocation
       THEN /\ error' = ErrChooseDifferent
            /\ UNCHANGED <<isLoading, hpc, inProgress>>
     ELSE IF startLocation = "" \/ endLocation = ""
       THEN /\ error' = ErrSelectBoth
            /\ UNCHANGED <<isLoading, hpc, inProgress>>
     ELSE /\ error' = ""
          /\ isLoading' = TRUE
          /\ inProgress' = inProgress + 1
          /\ hpc' = "lookup"
  /\ UNCHANGED <<startLocation, endLocation, weather, route, dashMapRef,
                 mapVars>>

\* A button without disabled={isLoading}.
GenerateClick_AlwaysEnabled ==
  /\ TaskMayStart /\ dashMapRef
  /\ Len(calls) < MaxCalls
  /\ closure' = [NoClosure EXCEPT !.startLocation = startLocation,
                                  !.endLocation = endLocation,
                                  !.weather = weather]
  /\ IF startLocation = "" \/ endLocation = ""
       THEN /\ error' = ErrSelectBoth
            /\ UNCHANGED <<isLoading, hpc, inProgress>>
     ELSE IF startLocation = endLocation
       THEN /\ error' = ErrChooseDifferent
            /\ UNCHANGED <<isLoading, hpc, inProgress>>
     ELSE /\ error' = ""
          /\ isLoading' = TRUE
          /\ inProgress' = inProgress + 1
          /\ hpc' = "lookup"
  /\ UNCHANGED <<startLocation, endLocation, weather, route, dashMapRef,
                 mapVars>>

\* handleGenerateRoute, from the click to setIsLoading(true).
GenerateClick ==
  /\ TaskMayStart /\ dashMapRef
  /\ ~isLoading                      \* the button is disabled while loading
  /\ Len(calls) < MaxCalls
  /\ closure' = [NoClosure EXCEPT !.startLocation = startLocation,
                                  !.endLocation = endLocation,
                                  !.weather = weather]
  /\ IF startLocation = "" \/ endLocation = ""
       THEN /\ error' = ErrSelectBoth
            /\ UNCHANGED <<isLoading, hpc, inProgress>>
     ELSE IF startLocation = endLocation
       THEN /\ error' = ErrChooseDifferent
            /\ UNCHANGED <<isLoading, hpc, inProgress>>
     ELSE /\ error' = ""
          /\ isLoading' = TRUE
          /\ inProgress' = inProgress + 1
          /\ hpc' = "lookup"
  /\ UNCHANGED <<startLocation, endLocation, weather, route, dashMapRef,
                 mapVars>>

\* A lookup that checks only the start entry.
GenerateLookup_StartOnly ==
  /\ hpc = "lookup"
  /\ LET start == find(closure.startLocation)
         end == find(closure.endLocation)
     IN IF start = NoLocation
          THEN /\ hpc' = "catch"
               /\ UNCHANGED closure
          ELSE /\ hpc' = "await"
               /\ closure' = [closure EXCEPT !.start = start, !.end = end]
  /\ UNCHANGED <<startLocation, endLocation, weather, route, error,
                 isLoading, inProgress, dashMapRef, mapVars>>

\* The two catalog lookups and the check of their results.
GenerateLookup ==
  /\ hpc = "lookup"
  /\ LET start == find(closure.startLocation)
         end == find(closure.endLocation)
     IN IF start = NoLocation \/ end = NoLocation
          THEN /\ hpc' = "catch"
               /\ UNCHANGED closure
          ELSE /\ hpc' = "await"
               /\ closure' = [closure EXCEPT !.start = start, !.end = end]
  /\ UNCHANGED <<startLocation, endLocation, weather, route, error,
                 isLoading, inProgress, dashMapRef, mapVars>>

\* After the simulated delay: build the descriptor, store it, forward it.
GenerateResume ==
  /\ hpc = "await"
  /\ ~MicrotaskPending
  /\ LET routeData == [start |-> closure.start.coords,
                       end |-> closure.end.coords,
                       weather |-> closure.weather,
                       startName |-> closure.start.name,
                       endName |-> closure.end.name]
     IN /\ route' = routeData
        /\ IF dashMapRef
             THEN DrawRouteStart(routeData)
             ELSE UNCHANGED mapVars
  /\ hpc' = "finally"
  /\ UNCHANGED <<startLocation, endLocation, weather, error, isLoading,
                 closure, inProgress, dashMapRef>>

GenerateCatch ==
  /\ hpc = "catch"
  /\ error' = ErrNoValidRoute
  /\ hpc' = "finally"
  /\ UNCHANGED <<startLocation, endLocation, weather, route, isLoading,
                 closure, inProgress, dashMapRef,
                 mapVars>>

\* A handler without the finally block's setIsLoading(false).
GenerateFinally_KeepsLoading ==
  /\ hpc = "finally"
  /\ inProgress' = inProgress - 1
  /\ hpc' = "idle"
  /\ UNCHANGED <<startLocation, endLocation, weather, route, error,
                 isLoading, closure, dashMapRef, mapVars>>

GenerateFinally ==
  /\ hpc = "finally"
  /\ isLoading' = FALSE
  /\ inProgress' = inProgress - 1
  /\ hpc' = "idle"
  /\ UNCHANGED <<startLocation, endLocation, weather, route, error,
                 closure, dashMapRef, mapVars>>

\* ------------------------------------------------ Map View: operations

\* The parent calls updateRoute through the ref.
UpdateRoute(routeData) ==
  /\ TaskMayStart /\ dashMapRef
  /\ hpc = "idle"
  /\ Len(calls) < MaxCalls
  /\ DrawRouteStart(routeData)
  /\ UNCHANGED dashVars

\* The draw-and-animate phase of the fetch variants, after the await.
DrawRouteFinish(g, r, released) ==
  LET routeData == calls[g]
      res == fetchRoute(variant, routeData.start, routeData.end, r)
      c == res.coordinates
      fromClient == IF res.caught THEN {"client:provider"} ELSE {}
  IN
  /\ response' = [response EXCEPT ![g] = r]
  /\ IF res.threw
       THEN /\ absorbed' = [absorbed EXCEPT ![g] = {"drawRoute:provider"}]
            /\ UNCHANGED <<onMap, refVars, timers, currentSegment,
                           routeCoordinates, vehicleLatLng>>
     ELSE IF mapRef = "removed" /\ released = "throws"
       THEN /\ routeCoordinates' = [routeCoordinates EXCEPT ![g] = c]
            /\ absorbed' =
                 [absorbed EXCEPT ![g] = fromClient \cup {"drawRoute:render"}]
            /\ UNCHANGED <<onMap, refVars, timers, currentSegment,
                           vehicleLatLng>>
     ELSE /\ routeCoordinates' = [routeCoordinates EXCEPT ![g] = c]
          /\ routeLayerRef' = g
          /\ markersRef' = g
          /\ IF Len(c) = 0
               THEN \* L.marker(undefined).addTo(map) raises
                    /\ onMap' = onMap \cup
                         {<<"polyline", g>>, <<"start", g>>, <<"end", g>>}
                    /\ absorbed' = [absorbed EXCEPT
                         ![g] = fromClient \cup {"drawRoute:render"}]
                    /\ UNCHANGED <<vehicleMarkerRef, animationRef, timers,
                                   currentSegment, vehicleLatLng>>
               ELSE /\ onMap' = onMap \cup
                         {<<"polyline", g>>, <<"start", g>>, <<"end", g>>,
                          <<"vehicle", g>>}
                    /\ vehicleMarkerRef' = g
                    /\ vehicleLatLng' = [vehicleLatLng EXCEPT ![g] = c[1]]
                    /\ currentSegment' = [currentSegment EXCEPT ![g] = 0]
                    /\ animationRef' = g
                    /\ timers' = timers \cup {g}
                    /\ absorbed' = [absorbed EXCEPT ![g] = fromClient]
          /\ UNCHANGED <<routingControlRef, currentRouteCoordinatesRef>>

\* The provider request of call g of a fetch variant settles.
FetchResolve(g, r, released) ==
  /\ HandlerAtRest
  /\ variant \in {"mapbox", "ors"}
  /\ g \in inflight
  /\ IF MicrotaskPending THEN r = NoResponse ELSE r # NoResponse
  /\ mapRef = "live" => released = "proceeds"
  /\ inflight' = inflight \ {g}
  /\ DrawRouteFinish(g, r, released)
  /\ UNCHANGED <<dashVars, variant, MAPBOX_TOKEN, mapRef, calls,
                 priorAnimating, returned>>

\* The routing control of call g fires 'routesfound' with e.routes.
RoutesFound(g, r, released) ==
  /\ TaskMayStart
  /\ variant = "osrm"
  /\ g \in inflight
  /\ r.seed = 0 /\ r.kind \in {"ok", "empty"}
  /\ mapRef = "live" => released = "proceeds"
  /\ inflight' = inflight \ {g}
  /\ response' = [response EXCEPT ![g] = r]
  /\ LET c == ToLatLng(ProviderGeometry(calls[g].start, calls[g].end, r.len))
     IN IF r.kind = "empty"
          THEN \* routes[0] is undefined
               UNCHANGED <<onMap, refVars, timers, currentSegment,
                           routeCoordinates, vehicleLatLng, absorbed>>
        ELSE /\ currentRouteCoordinatesRef' = c
             /\ routeCoordinates' = [routeCoordinates EXCEPT ![g] = c]
             /\ IF Len(c) = 0 \/ (mapRef = "removed" /\ released = "throws")
                  THEN /\ absorbed' =
                            [absorbed EXCEPT ![g] = {"handler:render"}]
                       /\ UNCHANGED <<onMap, vehicleMarkerRef, animationRef,
                                      timers, currentSegment, vehicleLatLng>>
                  ELSE /\ onMap' = onMap \cup {<<"vehicle", g>>}
                       /\ vehicleMarkerRef' = g
                       /\ vehicleLatLng' = [vehicleLatLng EXCEPT ![g] = c[1]]
                       /\ currentSegment' = [currentSegment EXCEPT ![g] = 0]
                       /\ animationRef' = g
                       /\ timers' = timers \cup {g}
                       /\ UNCHANGED absorbed
             /\ UNCHANGED <<routeLayerRef, markersRef, routingControlRef>>
  /\ UNCHANGED <<dashVars, variant, MAPBOX_TOKEN, mapRef, calls,
                 priorAnimating, returned>>

\* The routing control of call g fires 'routingerror': drawRoute registers
\* no handler for it.
RoutingError(g, r) ==
  /\ TaskMayStart
  /\ variant = "osrm"
  /\ g \in inflight
  /\ r.seed = 0 /\ r.kind \in {"neterr", "http"}
  /\ inflight' = inflight \ {g}
  /\ response' = [response EXCEPT ![g] = r]
  /\ UNCHANGED <<dashVars, variant, MAPBOX_TOKEN, mapRef, calls, onMap,
                 refVars, timers, currentSegment, routeCoordinates,
                 vehicleLatLng, absorbed, priorAnimating, returned>>

\* A callback that restarts the cursor without moving the marker.
Tick_WrapKeepsMarker(t) ==
  /\ TaskMayStart
  /\ t \in timers
  /\ LET c == routeCoordinates[t]
         next == IF currentSegment[t] < Len(c) - 1
                   THEN currentSegment[t] + 1 ELSE 0
     IN /\ currentSegment' = [currentSegment EXCEPT ![t] = next]
        /\ IF vehicleMarkerRef # NoRef /\ next # 0
             THEN vehicleLatLng' =
                    [vehicleLatLng EXCEPT ![vehicleMarkerRef] = c[next + 1]]
             ELSE UNCHANGED vehicleLatLng
  /\ UNCHANGED <<dashVars, variant, MAPBOX_TOKEN, mapRef, calls, inflight,
                 onMap, refVars, timers, routeCoordinates, response, absorbed,
                 priorAnimating, returned>>

\* A callback that stays at the final index instead of restarting.
Tick_StopsAtEnd(t) ==
  /\ TaskMayStart
  /\ t \in timers
  /\ LET c == routeCoordinates[t]
         next == IF currentSegment[t] < Len(c) - 1
                   THEN currentSegment[t] + 1 ELSE currentSegment[t]
     IN /\ currentSegment' = [currentSegment EXCEPT ![t] = next]
        /\ IF vehicleMarkerRef # NoRef
             THEN vehicleLatLng' =
                    [vehicleLatLng EXCEPT ![vehicleMarkerRef] = c[next + 1]]
             ELSE UNCHANGED vehicleLatLng
  /\ UNCHANGED <<dashVars, variant, MAPBOX_TOKEN, mapRef, calls, inflight,
                 onMap, refVars, timers, routeCoordinates, response, absorbed,
                 priorAnimating, returned>>

\* One firing of the interval callback that call t installed.
Tick(t) ==
  /\ TaskMayStart
  /\ t \in timers
  /\ LET c == routeCoordinates[t]
         next == IF currentSegment[t] < Len(c) - 1
                   THEN currentSegment[t] + 1 ELSE 0
     IN /\ currentSegment' = [currentSegment EXCEPT ![t] = next]
        /\ IF vehicleMarkerRef # NoRef
             THEN vehicleLatLng' =
                    [vehicleLatLng EXCEPT ![vehicleMarkerRef] = c[next + 1]]
             ELSE UNCHANGED vehicleLatLng
  /\ UNCHANGED <<dashVars, variant, MAPBOX_TOKEN, mapRef, calls, inflight,
                 onMap, refVars, timers, routeCoordinates, response, absorbed,
                 priorAnimating, returned>>

\* A firing that keeps the cursor within MaxCursor, or wraps it.
TickWithin(t) ==
  /\ \/ currentSegment[t] < MaxCursor
     \/ currentSegment[t] >= Len(routeCoordinates[t]) - 1
  /\ Tick(t)

\* The cleanup of the mount effect: the component is disposed.
Unmount ==
  /\ TaskMayStart /\ dashMapRef
  /\ dashMapRef' = FALSE
  /\ IF mapRef # "null"
       THEN mapRef' = "removed" /\ onMap' = {}
       ELSE UNCHANGED <<mapRef, onMap>>
  /\ timers' = timers \ {animationRef}
  /\ UNCHANGED <<startLocation, endLocation, weather, route, error,
                 isLoading, hpc, closure, inProgress, variant, MAPBOX_TOKEN,
                 calls,
                 inflight, refVars, currentSegment, routeCoordinates,
                 vehicleLatLng, response, absorbed, priorAnimating,
                 returned>>

\* ------------------------------------------------------------ displays

\* The label of a weather value in WEATHER_CONDITIONS (without its icon).
LabelOf(w) ==
  CASE w = "sunny" -> "Sunny"
    [] w = "rain" -> "Rain"
    [] w = "snow" -> "Snow"
    [] OTHER -> ""

\* The Dashboard's risk flag: it reads the weather selector's state.
isHighRisk == weather = "rain" \/ weather = "snow"

\* The Dashboard's risk banner, risk badge and weather label.
RiskAlertShown == route # NoRouteData /\ isHighRisk
RiskBadge == IF isHighRisk THEN "High Risk" ELSE "Low Risk"
RouteInfoWeather == LabelOf(weather)

\* The Route Analysis Table, rendered from a Route Descriptor r.
TableIsHighRisk(r) == r.weather = "rain" \/ r.weather = "snow"

getWeatherLabel(r) ==
  CASE r.weather = "sunny" -> "Sunny"
    [] r.weather = "rain" -> "Rain"
    [] r.weather = "snow" -> "Snow"
    [] OTHER -> "Sunny"

getSuggestedVehicle(r) ==
  IF TableIsHighRisk(r) THEN "Heavy-Duty Refrigerated Truck"
                        ELSE "Standard Refrigerated Van"

getOptimizationMethod(r) ==
  IF TableIsHighRisk(r) THEN "Weather-adapted route (safety priority)"
                        ELSE "Fastest route (time optimized)"

getNotes(r) ==
  IF r.weather = "snow"
    THEN "Use snow chains, check tire pressure, reduce speed"
  ELSE IF r.weather = "rain"
    THEN "Monitor road conditions, avoid flooded areas"
  ELSE "Optimal conditions for delivery"

\* ------------------------------------------------------ specifications

\* The descriptors a parent passes to updateRoute: two distinct catalog
\* entries and a weather value, as handleGenerateRoute builds them.
RouteDatas ==
  {[start |-> BC_LOCATIONS[i].coords, end |-> BC_LOCATIONS[j].coords,
    weather |-> w, startName |-> BC_LOCATIONS[i].name,
    endName |-> BC_LOCATIONS[j].name] :
     i \in 1..NumLocations, j \in 1..NumLocations, w \in WEATHER_CONDITIONS}
  \ {rd \in [start : {BC_LOCATIONS[i].coords : i \in 1..NumLocations},
             end : {BC_LOCATIONS[i].coords : i \in 1..NumLocations},
             weather : WEATHER_CONDITIONS, startName : CatalogNames,
             endName : CatalogNames] : rd.startName = rd.endName}

MapEvents ==
  \/ \E g \in Gens, r \in OkResponses \cup FailResponses \cup {NoResponse},
        rel \in ReleasedMapOutcomes : FetchResolve(g, r, rel)
  \/ \E g \in Gens, r \in OkResponses \cup FailResponses,
        rel \in ReleasedMapOutcomes : RoutesFound(g, r, rel)
  \/ \E g \in Gens, r \in FailResponses : RoutingError(g, r)
  \/ \E t \in Gens : TickWithin(t)

DashEvents ==
  \/ \E n \in SelectableNames : SelectStart(n)
  \/ \E n \in SelectableNames : SelectEnd(n)
  \/ \E w \in WEATHER_CONDITIONS : SelectWeather(w)
  \/ GenerateClick
  \/ GenerateLookup
  \/ GenerateResume
  \/ GenerateCatch
  \/ GenerateFinally

\* The Map View of any variant, driven by a parent through updateRoute.
NextMap ==
  \/ \E rd \in RouteDatas : UpdateRoute(rd)
  \/ MapEvents
  \/ Unmount

SpecMap == Init /\ [][NextMap]_vars

\* The Dashboard with the Map View it imports (the routing-control variant),
\* up to the calls it makes; the Map View's own events are in SpecMap.
InitDash == Init /\ variant = "osrm"

NextDash ==
  \/ DashEvents
  \/ Unmount

SpecDash == InitDash /\ [][NextDash]_vars

\* The Dashboard together with the events of the routing-control Map View
\* it imports: the provider answers and the routing errors of its calls.
\* The animation ticks of that Map View are followed in SpecMap.
NextGen ==
  \/ DashEvents
  \/ \E g \in Gens, r \in OkResponses \cup FailResponses,
        rel \in ReleasedMapOutcomes : RoutesFound(g, r, rel)
  \/ \E g \in Gens, r \in FailResponses : RoutingError(g, r)
  \/ Unmount

SpecGen == InitDash /\ [][NextGen]_vars

\* The Map View of any variant through its first route, with every firing
\* of that route's animation timer.
FirstRoute ==
  \E rd \in RouteDatas : Len(calls) = 0 /\ UpdateRoute(rd)

NextAnim ==
  \/ FirstRoute
  \/ \E r \in OkResponses \cup FailResponses \cup {NoResponse},
        rel \in ReleasedMapOutcomes : FetchResolve(1, r, rel)
  \/ \E r \in OkResponses \cup FailResponses,
        rel \in ReleasedMapOutcomes : RoutesFound(1, r, rel)
  \/ \E r \in FailResponses : RoutingError(1, r)
  \/ Tick(1)
  \/ Unmount

SpecAnim == Init /\ [][NextAnim]_vars

\* SpecAnim with the interval timer firing again and again while it is
\* live: setInterval reschedules the callback until clearInterval.
SpecAnimFair == SpecAnim /\ WF_vars(Tick(1))

\* SpecDash with the handler running on once started: its synchronous
\* statements follow one another and the one-second timeout expires.
SpecDashFair ==
  /\ SpecDash
  /\ WF_vars(GenerateLookup)
  /\ WF_vars(GenerateResume)
  /\ WF_vars(GenerateCatch)
  /\ WF_vars(GenerateFinally)

\* ------------------------------------------------------------ claims

LayersOfKind(k) == {l \in onMap : l[1] = k}

\* C1: in every reachable state at most one animation timer is live, the
\* map carries at most one layer of each kind, and every live timer and
\* every layer belongs to one and the same updateRoute call.
C1_OneRouteLive ==
  /\ Cardinality(timers) <= 1
  /\ \A k \in {"polyline", "start", "end", "vehicle", "control"} :
       Cardinality(LayersOfKind(k)) <= 1
  /\ \A l1 \in onMap, l2 \in onMap : l1[2] = l2[2]
  /\ \A t \in timers, l \in onMap : l[2] = t

\* C2: once every provider request has resolved, all that is shown on the
\* live map (layers and running animation) belongs to the latest call.
C2_LatestRouteShown ==
  (mapRef = "live" /\ inflight = {} /\ Len(calls) >= 2)
    => /\ \A l \in onMap : l[2] = Len(calls)
       /\ timers \subseteq {Len(calls)}

\* C3: when a call that began on a fully drawn, animating route has
\* completed its own draw (its timer runs) and no later call was made,
\* exactly its timer is live and exactly its layers are on the map.
C3_SecondDrawReplacesFirst ==
  \A g \in Gens :
    (priorAnimating[g] /\ g \in timers /\ Len(calls) = g /\ mapRef = "live")
      => /\ timers = {g}
         /\ onMap = RouteLayers(g)
         /\ \A k \in {"polyline", "start", "end", "vehicle", "control"} :
              Cardinality(LayersOfKind(k)) <= 1

C3_Witness ==
  \E g \in Gens :
    /\ priorAnimating[g] /\ g \in timers /\ Len(calls) = g
    /\ mapRef = "live" /\ g >= 2

\* C4: in the fetch variants, a call whose provider request failed (network
\* error, non-2xx status, no routes) obtained exactly the list the Fallback
\* Generator yields for its start and end under the random draws the client
\* consumed; the client caught the error and none reached drawRoute.
C4_FailureYieldsFallback ==
  \A g \in Gens :
    (variant \in {"mapbox", "ors"} /\ response[g].kind \in FailureKinds)
      => /\ routeCoordinates[g] =
              generateFallbackRoute(calls[g].start, calls[g].end,
                                    response[g].seed)
         /\ "client:provider" \in absorbed[g]
         /\ "drawRoute:provider" \notin absorbed[g]

C4_Witness ==
  \E g \in Gens :
    /\ variant \in {"mapbox", "ors"}
    /\ response[g].kind \in FailureKinds
    /\ response[g].seed > 0
    /\ Len(routeCoordinates[g]) = segments + 1

\* C5: in every variant, when the latest call's provider request failed or
\* returned no route and nothing is in flight, the live map shows a
\* synthetic coordinate sequence with the vehicle animation running.
C5_FailureFallsBackEverywhere ==
  \A g \in Gens :
    (/\ mapRef = "live" /\ inflight = {} /\ Len(calls) = g
     /\ response[g].kind \in FailureKinds)
      => /\ Len(routeCoordinates[g]) = segments + 1
         /\ g \in timers
         /\ <<"vehicle", g>> \in onMap

\* C6: after the teardown no animation timer is live.
C6_NoTimerAfterTeardown ==
  mapRef = "removed" => timers = {}

\* The selections a generate-route action was submitted with, as the
\* handler captured them.
Submitted(c) == c.weather # ""
SelMissing(c) == c.startLocation = "" \/ c.endLocation = ""
SelSame(c) == ~SelMissing(c) /\ c.startLocation = c.endLocation
SelUnknown(c) ==
  /\ ~SelMissing(c) /\ ~SelSame(c)
  /\ find(c.startLocation) = NoLocation \/ find(c.endLocation) = NoLocation

\* A step of the handler itself (not a user event between two actions).
HandlerStep == hpc # "idle" \/ hpc' # "idle" \/ closure' # closure

\* C7: an action submitted with start = end, both non-empty, sets the
\* "choose different locations" error and ends there: the Route Descriptor
\* is not replaced and updateRoute is not called.
C7_SameLocationsRejected ==
  [][(Submitted(closure') /\ SelSame(closure'))
       => /\ error' = ErrChooseDifferent
          /\ route' = route
          /\ calls' = calls
          /\ hpc' = "idle" /\ ~isLoading']_vars

C7_Witness ==
  /\ Submitted(closure) /\ SelSame(closure)
  /\ hpc = "idle" /\ error = ErrChooseDifferent

\* C8: an action submitted with either selector empty (both empty included)
\* sets the "select both locations" error and ends there: the Route
\* Descriptor is not replaced and updateRoute is not called.
C8_MissingLocationRejected ==
  [][(Submitted(closure') /\ SelMissing(closure'))
       => /\ error' = ErrSelectBoth
          /\ route' = route
          /\ calls' = calls
          /\ hpc' = "idle" /\ ~isLoading']_vars

C8_Witness ==
  /\ Submitted(closure)
  /\ closure.startLocation = "" /\ closure.endLocation = ""
  /\ hpc = "idle" /\ error = ErrSelectBoth

\* C9: an action submitted with a start or end name that no catalog entry
\* carries never replaces the Route Descriptor, never calls updateRoute,
\* never reaches the delay, and ends with the "no valid route found" error
\* and the loading flag false.
C9_UnknownLocationRejected ==
  [][(Submitted(closure') /\ SelUnknown(closure'))
       => /\ route' = route
          /\ calls' = calls
          /\ hpc' # "await"
          /\ hpc' = "idle" => (error' = ErrNoValidRoute /\ ~isLoading')]_vars

C9_Witness ==
  /\ Submitted(closure) /\ SelUnknown(closure)
  /\ hpc = "idle" /\ error = ErrNoValidRoute /\ ~isLoading

\* C10: in an action that fails validation (missing, identical or unknown
\* location) no step of the handler changes the Route Descriptor, the
\* loading flag or the selections.
C10_ValidationBeforeMutation ==
  [][(/\ Submitted(closure')
      /\ SelMissing(closure') \/ SelSame(closure') \/ SelUnknown(closure')
      /\ HandlerStep)
       => UNCHANGED <<route, isLoading, startLocation, endLocation,
                      weather>>]_vars

\* The Route Descriptor handleGenerateRoute builds from the selections c.
DescriptorOf(c) ==
  [start |-> find(c.startLocation).coords,
   end |-> find(c.endLocation).coords,
   weather |-> c.weather,
   startName |-> c.startLocation,
   endName |-> c.endLocation]

SelValid(c) == ~SelMissing(c) /\ ~SelSame(c) /\ ~SelUnknown(c)

\* C11: an action submitted with two distinct catalog locations stores the
\* Route Descriptor of the selections captured at the click (names and
\* coordinates of both ends) and passes that same descriptor to updateRoute,
\* and every call whose provider request has settled obtained a coordinate
\* sequence of at least 2 points.
C11_DescriptorDrawn ==
  /\ (hpc = "finally" /\ Submitted(closure) /\ SelValid(closure))
       => /\ route = DescriptorOf(closure)
          /\ dashMapRef => (Len(calls) >= 1 /\ calls[Len(calls)] = route)
  /\ \A g \in Gens :
       (g <= Len(calls) /\ response[g] # NoResponse)
         => Len(routeCoordinates[g]) >= 2

\* C12: whenever a Route Descriptor is stored, the Dashboard's risk banner,
\* risk badge and weather label are those of the descriptor's weather, and
\* the badge says High Risk exactly when the map draws that descriptor in
\* the warning color.
C12_DisplaysFollowDescriptor ==
  route # NoRouteData
    => /\ RiskAlertShown <=> TableIsHighRisk(route)
       /\ RiskBadge = (IF TableIsHighRisk(route) THEN "High Risk"
                                                 ELSE "Low Risk")
       /\ RouteInfoWeather = getWeatherLabel(route)
       /\ (RiskBadge = "High Risk")
            <=> (routeColor(route.weather) = WarningColor)

\* C13: for the weather value selected and for the weather of the stored
\* Route Descriptor, the risk flag is true exactly for rain and snow, the
\* route color is the warning color exactly when the risk flag is true and
\* the favorable color otherwise, and the Analysis Table suggests the
\* heavy-duty truck exactly when the flag is true and the standard van
\* otherwise, with the flooded-areas note for rain.
C13_RiskFollowsWeather ==
  /\ isHighRisk <=> weather \in {"rain", "snow"}
  /\ routeColor(weather) =
       (IF isHighRisk THEN WarningColor ELSE FavorableColor)
  /\ route # NoRouteData
       => /\ TableIsHighRisk(route) <=> route.weather \in {"rain", "snow"}
          /\ routeColor(route.weather) =
               (IF TableIsHighRisk(route) THEN WarningColor
                                          ELSE FavorableColor)
          /\ getSuggestedVehicle(route) =
               (IF TableIsHighRisk(route)
                  THEN "Heavy-Duty Refrigerated Truck"
                  ELSE "Standard Refrigerated Van")
          /\ route.weather = "rain"
               => getNotes(route) =
                    "Monitor road conditions, avoid flooded areas"

C13_Witness ==
  /\ route # NoRouteData /\ route.weather = "rain"
  /\ weather = "snow"
  /\ Len(calls) = 2 /\ calls[1].weather = "sunny"

C15_NoTokenDirectLine ==
  [][(variant = "mapbox" /\ MAPBOX_TOKEN \in {"", MAPBOX_PLACEHOLDER})
       => /\ response'[1] = NoResponse
          /\ (1 \in inflight /\ 1 \notin inflight')
               => routeCoordinates'[1] = <<calls[1].start, calls[1].end>>
          /\ currentSegment'[1] \in {0, 1}
          /\ currentSegment'[1] # currentSegment[1]
               => currentSegment'[1] = 1 - currentSegment[1]]_vars

C15_Witness ==
  /\ variant = "mapbox" /\ MAPBOX_TOKEN = MAPBOX_PLACEHOLDER
  /\ 1 \in timers /\ currentSegment[1] = 1
  /\ routeCoordinates[1] = <<calls[1].start, calls[1].end>>
  /\ vehicleLatLng[1] = calls[1].end

C17_CursorStepsAndWraps ==
  [][LET c == routeCoordinates'[1]
         last == Len(routeCoordinates[1]) - 1
     IN /\ (1 \notin timers /\ 1 \in timers')
             => (currentSegment'[1] = 0 /\ vehicleLatLng'[1] = c[1])
        /\ 1 \in timers' => currentSegment'[1] \in 0..(Len(c) - 1)
        /\ (1 \in timers /\ currentSegment'[1] # currentSegment[1])
             => /\ currentSegment'[1] =
                     (IF currentSegment[1] = last
                        THEN 0 ELSE currentSegment[1] + 1)
                /\ vehicleLatLng'[1] = c[currentSegment'[1] + 1]]_vars

\* The cursor at the final index of a fallback route.
C17_Witness ==
  /\ 1 \in timers /\ Len(routeCoordinates[1]) = segments + 1
  /\ currentSegment[1] = segments
  /\ vehicleLatLng[1] = calls[1].end
  /\ mapRef = "live"

\* C18: while the route's timer is live and keeps firing, the cursor and
\* the vehicle marker come to every index of the coordinate sequence again
\* and again; a live timer stops only in a step that is a later updateRoute
\* call or the teardown.
C18_AnimationLoops ==
  /\ \A i \in 0..segments :
       (1 \in timers /\ i < Len(routeCoordinates[1]))
         ~> \/ 1 \notin timers
            \/ /\ currentSegment[1] = i
               /\ i < Len(routeCoordinates[1])
               /\ vehicleLatLng[1] = routeCoordinates[1][i + 1]
  /\ [][(1 \in timers /\ 1 \notin timers')
          => (Len(calls') > Len(calls) \/ mapRef' = "removed")]_vars

\* The marker at the last point of a route the provider answered with.
C18_Witness ==
  /\ 1 \in timers /\ response[1].kind = "ok"
  /\ Len(routeCoordinates[1]) = MaxProviderLen
  /\ currentSegment[1] = MaxProviderLen - 1
  /\ vehicleLatLng[1] = routeCoordinates[1][MaxProviderLen]
  /\ mapRef = "live"

\* C19: the vehicle marker the shared reference points to, while shown on
\* the map, stands at a coordinate of the coordinate sequence drawn with it
\* (the most recently drawn one), never at a coordinate of an earlier route.
C19_MarkerOnLatestRoute ==
  \A g \in Gens :
    (g = vehicleMarkerRef /\ <<"vehicle", g>> \in onMap)
      => \E i \in 1..Len(routeCoordinates[g]) :
           vehicleLatLng[g] = routeCoordinates[g][i]

\* C20: every generate-route action that got past the first two checks
\* eventually ends with the loading flag false; the loading flag is true
\* only inside such an action; and an ended action left one of: the "select
\* both" error, the "choose different" error, the "no valid route" error, or
\* the stored descriptor of its selections with the error message empty.
C20_ActionFinishes ==
  /\ (hpc # "idle") ~> (hpc = "idle" /\ ~isLoading)
  /\ [](isLoading => hpc \in {"lookup", "await", "catch", "finally"})
  /\ []((hpc = "idle" /\ Submitted(closure))
          => \/ SelMissing(closure) /\ error = ErrSelectBoth
             \/ SelSame(closure) /\ error = ErrChooseDifferent
             \/ SelUnknown(closure) /\ error = ErrNoValidRoute
             \/ /\ SelValid(closure) /\ error = ""
                /\ route = DescriptorOf(closure))

\* A second successful action has ended, after one with another weather.
C20_Witness ==
  /\ hpc = "idle" /\ ~isLoading /\ error = ""
  /\ Submitted(closure) /\ SelValid(closure)
  /\ route = DescriptorOf(closure)
  /\ Len(calls) = 2 /\ calls[1].weather # calls[2].weather

\* The selections an action was triggered with.
SelectionsOf(c) == <<c.startLocation, c.endLocation, c.weather>>

\* C21: at most one generate-route action is between its validation and
\* its completion; an action is triggered only while none is in progress
\* and the loading flag is false; and every step that stores a Route
\* Descriptor or passes one to updateRoute does so for the one action in
\* progress, with the descriptor of the selections triggered last, appended
\* after the descriptors of all earlier actions.
C21_ActionsNeverOverlap ==
  [][/\ inProgress' \in {0, 1}
     /\ inProgress' = 0 <=> hpc' = "idle"
     /\ SelectionsOf(closure') # SelectionsOf(closure)
          => (inProgress = 0 /\ ~isLoading)
     /\ inProgress' > inProgress => (inProgress = 0 /\ ~isLoading)
     /\ (route' # route \/ calls' # calls)
          => /\ inProgress = 1 /\ inProgress' = 1
             /\ SelectionsOf(closure') = SelectionsOf(closure)
             /\ route' = DescriptorOf(closure)
             /\ dashMapRef => calls' = Append(calls, route')
             /\ ~dashMapRef => calls' = calls]_vars

\* A second action waits in its delay, after the first one's descriptor was
\* stored and passed on; the selections have changed since.
C21_Witness ==
  /\ inProgress = 1 /\ hpc = "await" /\ isLoading
  /\ Len(calls) = 1 /\ route = calls[1]
  /\ DescriptorOf(closure) # route
  /\ startLocation # closure.startLocation

====
